---- MODULE Spec2Model ----
(***************************************************************************)
(* bunyan-syslog-unixdgram: the SyslogStream of src/index.js.              *)
(*                                                                         *)
(* A stream owns one unix-dgram socket, the flags _connected and           *)
(* _congested and the array _queue.  write(record) formats a record into   *)
(* a buffer and passes it to _send; the socket's 'connect', 'congestion',  *)
(* 'writable' and 'error' events run the stream's listeners.  JavaScript   *)
(* runs each call and each listener to completion, so every action below   *)
(* is one whole call.                                                      *)
(*                                                                         *)
(* The socket is the environment.  Its send(buf) either takes the buffer   *)
(* or emits 'congestion' with that buffer before it returns; the model     *)
(* draws that answer for every send.  'connect', 'writable' and 'error'    *)
(* are emitted between calls, at any time.                                 *)
(***************************************************************************)
EXTENDS Integers, Sequences, FiniteSets

\* Bounds of the model.
MaxWrites == 3

\* The levels and the facility codes the formatting is checked for.
MaxLevel == 70
MaxFacility == 23

\* The record levels and the errno values the model draws from.
Levels == {30, 60}
Errnos == {-2, -13, -91, -111}

\* What write() may be handed: typeof gives "object" for objects and null.
RecordTypes == {"object", "null", "string", "undefined"}
Records ==
    [type : {"object"}, level : Levels]
        \cup [type : RecordTypes \ {"object"}, level : {0}]

\* The options a caller constructs a stream with; each field is optional.
NoOptions == [k \in {} |-> 0]
OptionSets ==
    { NoOptions,
      [facility |-> 0],
      [path |-> "/tmp/missing.sock"],
      [facility |-> 23, name |-> "app", path |-> "/var/run/syslog"] }

VARIABLES
    _options,       \* this._options: facility, name, path
    _queue,         \* this._queue: the buffers waiting to be sent
    _connected,     \* this._connected
    _congested,     \* this._congested
    errorListener,  \* _boundOnConnectionFailure is registered on 'error'
    connectListener,\* the once('connect') listener is still registered
    submitted,      \* history: the buffers write() produced, in order
    attempted,      \* history: buffers in the order of their first socket.send
    accepted,       \* history: buffers socket.send took, in order
    preConnect,     \* history: how many buffers were submitted while connecting
    last            \* the last call: what it was, what it raised, what it did

vars ==
    << _options, _queue, _connected, _congested, errorListener,
       connectListener, submitted, attempted, accepted, preConnect, last >>

----------------------------------------------------------------------------
\* Sequence helpers.

Range(s) == { s[i] : i \in 1..Len(s) }

Reverse(s) == [i \in 1..Len(s) |-> s[Len(s) + 1 - i]]

\* F of the value of v.  TLC evaluates an operator's argument wherever the
\* body uses it; a bound variable is evaluated once.
With(v, F(_)) == CHOOSE r \in { F(x) : x \in {v} } : TRUE

\* The decimal digits of a number, as '' + n writes them.
DigitChars == << "0", "1", "2", "3", "4", "5", "6", "7", "8", "9" >>

RECURSIVE Digits(_)
Digits(n) ==
    IF n < 0 THEN << "-" >> \o Digits(-n)
    ELSE IF n < 10 THEN << DigitChars[n + 1] >>
    ELSE Digits(n \div 10) \o << DigitChars[(n % 10) + 1] >>

\* level whose ERROR case has lost its break and falls into WARN's.
level_fallthrough(lvl) ==
    CASE lvl = 60 -> 0
      [] lvl = 50 -> 4
      [] lvl = 40 -> 4
      [] lvl = 30 -> 6
      [] OTHER    -> 7

\* function level(level): the bunyan level to the syslog level.
level(lvl) ==
    CASE lvl = 60 -> 0
      [] lvl = 50 -> 3
      [] lvl = 40 -> 4
      [] lvl = 30 -> 6
      [] OTHER    -> 7

\* The facility table with cron given the other clock-daemon code.
facility_cronIs9 ==
    [ kern |-> 0, user |-> 1, mail |-> 2, daemon |-> 3, auth |-> 4,
      syslog |-> 5, lpr |-> 6, news |-> 7, uucp |-> 8, authpriv |-> 10,
      ftp |-> 11, cron |-> 9, local0 |-> 16, local1 |-> 17, local2 |-> 18,
      local3 |-> 19, local4 |-> 20, local5 |-> 21, local6 |-> 22,
      local7 |-> 23 ]

\* module.exports.facility
facility ==
    [ kern |-> 0, user |-> 1, mail |-> 2, daemon |-> 3, auth |-> 4,
      syslog |-> 5, lpr |-> 6, news |-> 7, uucp |-> 8, authpriv |-> 10,
      ftp |-> 11, cron |-> 15, local0 |-> 16, local1 |-> 17, local2 |-> 18,
      local3 |-> 19, local4 |-> 20, local5 |-> 21, local6 |-> 22,
      local7 |-> 23 ]

\* The names index.d.ts declares for the facility table.
facilityDeclared ==
    { "auth", "authpriv", "cron", "daemon", "ftp", "kern", "local0",
      "local1", "local2", "local3", "local4", "local5", "local6", "local7",
      "lpr", "mail", "news", "syslog", "user", "uucp" }

\* merge(defaultOptions, options): the fields of options over the defaults.
defaultOptions == [facility |-> 1, name |-> "node", path |-> "/dev/log"]

merge(defaults, options) ==
    [k \in DOMAIN defaults |->
        IF k \in DOMAIN options THEN options[k] ELSE defaults[k]]

----------------------------------------------------------------------------
(***************************************************************************)
(* The channel as a value: the fields a call reads and writes, with the    *)
(* trace of what the call did (pushes onto _queue, sends to the socket).   *)
(***************************************************************************)
Channel ==
    [ queue |-> _queue, connected |-> _connected, congested |-> _congested,
      errorListener |-> errorListener,
      attempted |-> attempted, accepted |-> accepted, trace |-> <<>> ]

Ev(kind, buf) == [ev |-> kind, buf |-> buf]

\* _onCongestion that sets the flag and forgets the buffer.
_onCongestion_noPush(c, buf) ==
    [c EXCEPT !.congested = TRUE]

\* _onCongestion that writes the wrong flag: _connected = false.
_onCongestion_clearsConnected(c, buf) ==
    [c EXCEPT !.connected = FALSE,
              !.queue = Append(c.queue, buf),
              !.trace = Append(c.trace, Ev("push", buf))]

\* SyslogStream.prototype._onCongestion
_onCongestion(c, buf) ==
    [c EXCEPT !.congested = TRUE,
              !.queue = Append(c.queue, buf),
              !.trace = Append(c.trace, Ev("push", buf))]

\* this._socket.send(buf): the socket takes buf (ok) or emits 'congestion'.
socketSend(c, buf, ok) ==
    LET first == IF buf \in Range(c.attempted) THEN c.attempted
                 ELSE Append(c.attempted, buf)
    IN  IF ok
        THEN [c EXCEPT !.attempted = first,
                       !.accepted = Append(c.accepted, buf),
                       !.trace = Append(c.trace, Ev("sent", buf))]
        ELSE _onCongestion(
                [c EXCEPT !.attempted = first,
                          !.trace = Append(c.trace, Ev("congestion", buf))],
                buf)

\* _send that tests only _connected, not _congested.
_send_ignoresCongestion(c, buf, ok) ==
    IF ~c.connected
    THEN [c EXCEPT !.queue = Append(c.queue, buf),
                   !.trace = Append(c.trace, Ev("push", buf))]
    ELSE socketSend(c, buf, ok)

\* _send that queues at the front (unshift for push).
_send_unshift(c, buf, ok) ==
    IF ~c.connected \/ c.congested
    THEN [c EXCEPT !.queue = << buf >> \o c.queue,
                   !.trace = Append(c.trace, Ev("push", buf))]
    ELSE socketSend(c, buf, ok)

\* _send that queues whatever the flags say.
_send_alwaysQueues(c, buf, ok) ==
    [c EXCEPT !.queue = Append(c.queue, buf),
              !.trace = Append(c.trace, Ev("push", buf))]

\* SyslogStream.prototype._send
_send(c, buf, ok) ==
    IF ~c.connected \/ c.congested
    THEN [c EXCEPT !.queue = Append(c.queue, buf),
                   !.trace = Append(c.trace, Ev("push", buf))]
    ELSE socketSend(c, buf, ok)

\* queue.forEach(function (buf) { self._send(buf); }) from index i on;
\* resp[i] is the socket's answer should the i-th buffer reach socket.send.
RECURSIVE forEach(_, _, _, _)
forEach(c, queue, resp, i) ==
    IF i > Len(queue) THEN c
    ELSE With(_send(c, queue[i], resp[i]),
              LAMBDA next : forEach(next, queue, resp, i + 1))

\* _handleQueue that walks the old queue from its tail.
_handleQueue_reversed(c, resp) ==
    forEach([c EXCEPT !.queue = <<>>], Reverse(c.queue), resp, 1)

\* _handleQueue that starts one buffer too late.
_handleQueue_skipsFirst(c, resp) ==
    forEach([c EXCEPT !.queue = <<>>], c.queue, resp, 2)

\* _handleQueue that walks this._queue without putting a fresh array in
\* its place.
_handleQueue_noSwap(c, resp) ==
    forEach(c, c.queue, resp, 1)

\* SyslogStream.prototype._handleQueue
_handleQueue(c, resp) ==
    forEach([c EXCEPT !.queue = <<>>], c.queue, resp, 1)

\* _onConnectionSuccess that sets the flag and leaves the queue alone.
_onConnectionSuccess_noFlush(c, resp) ==
    [c EXCEPT !.errorListener = FALSE, !.connected = TRUE]

\* _onConnectionSuccess whose removeListener is handed a function that was
\* never registered (a fresh bind), so the 'error' listener stays.
_onConnectionSuccess_keepsErrorListener(c, resp) ==
    _handleQueue([c EXCEPT !.connected = TRUE], resp)

\* SyslogStream.prototype._onConnectionSuccess: removeListener takes the
\* registered _boundOnConnectionFailure off 'error'.
_onConnectionSuccess(c, resp) ==
    _handleQueue([c EXCEPT !.errorListener = FALSE, !.connected = TRUE], resp)

\* _onWritable that flushes and leaves _congested set.
_onWritable_keepsCongested(c, resp) ==
    _handleQueue(c, resp)

\* SyslogStream.prototype._onWritable
_onWritable(c, resp) ==
    _handleQueue([c EXCEPT !.congested = FALSE], resp)

\* _onConnectionFailure whose 'access denied' message leaves the path out.
errMsg_deniedWithoutPath(path, err) ==
    CASE -err = 2 ->
            << path, " does not exist. Provide a path to a socket that does exist" >>
      [] -err = 13 ->
            << "Access was denied to the socket. Ensure your user has write privileges to the socket" >>
      [] -err = 91 ->
            << path, " is not a dgram socket. You may be trying to connect to a stream socket. Ensure the socket uses the datagram protocol." >>
      [] OTHER ->
            << "Failed to connect to ", path, ". The errno code was " >>
                \o Digits(-err) \o << "." >>

\* SyslogStream.prototype._onConnectionFailure: the message it throws,
\* as the pieces the code concatenates.
errMsg(path, err) ==
    CASE -err = 2 ->
            << path, " does not exist. Provide a path to a socket that does exist" >>
      [] -err = 13 ->
            << "Access was denied to the socket located at ", path,
               ". Ensure your user has write privileges to the socket" >>
      [] -err = 91 ->
            << path, " is not a dgram socket. You may be trying to connect to a stream socket. Ensure the socket uses the datagram protocol." >>
      [] OTHER ->
            << "Failed to connect to ", path, ". The errno code was " >>
                \o Digits(-err) \o << "." >>

\* write whose typeof test is inverted: it throws for objects.
writeRaises_inverted(record) ==
    IF record.type = "object" \/ record.type = "null" THEN "Error" ELSE "none"

\* write without the typeof test.
writeRaises_noTypeCheck(record) ==
    IF record.type = "null" THEN "TypeError" ELSE "none"

\* SyslogStream.prototype.write, lines 191-196: what the call raises.
\* typeof null is 'object', and record.hostname of null is a TypeError.
writeRaises(record) ==
    IF record.type # "object" /\ record.type # "null" THEN "Error"
    ELSE IF record.type = "null" THEN "TypeError"
    ELSE "none"

writeMessage(record) ==
    IF writeRaises(record) = "Error"
    THEN << "Use 'raw' log messages when setting up this stream for Bunyan." >>
    ELSE <<>>

\* write that takes the facility of the defaults, not of this._options.
Buffer_defaultFacility(record) ==
    [ seq |-> Len(submitted) + 1,
      priority |-> (defaultOptions.facility * 8) + level(record.level),
      level |-> record.level ]

\* The buffer write() builds: the header's priority and the message, which
\* carries the record's level; seq tells apart the buffer objects of
\* different calls.
Buffer(record) ==
    [ seq |-> Len(submitted) + 1,
      priority |-> (_options.facility * 8) + level(record.level),
      level |-> record.level ]

----------------------------------------------------------------------------
Outcome(op, arg, error, msg, trace) ==
    [op |-> op, arg |-> arg, error |-> error, msg |-> msg, trace |-> trace]

\* Store a channel value back into the stream's fields.
Store(c) ==
    /\ _queue' = c.queue
    /\ _connected' = c.connected
    /\ _congested' = c.congested
    /\ errorListener' = c.errorListener
    /\ attempted' = c.attempted
    /\ accepted' = c.accepted

\* new SyslogStream(options)
Init ==
    \E options \in OptionSets :
        /\ _options = merge(defaultOptions, options)
        /\ _queue = <<>>
        /\ _connected = FALSE
        /\ _congested = FALSE
        /\ errorListener = TRUE
        /\ connectListener = TRUE
        /\ submitted = <<>>
        /\ attempted = <<>>
        /\ accepted = <<>>
        /\ preConnect = 0
        /\ last = Outcome("new", "none", "none", <<>>, <<>>)

\* SyslogStream.prototype.write, a record that makes it throw: nothing after
\* the throw runs.
WriteThrows(record) ==
    /\ writeRaises(record) # "none"
    /\ last' = Outcome("write", record.type, writeRaises(record),
                       writeMessage(record), <<>>)
    /\ UNCHANGED << _options, _queue, _connected, _congested, errorListener,
                    connectListener, submitted, attempted, accepted,
                    preConnect >>

\* SyslogStream.prototype.write, a record it formats and passes to _send.
WriteSends(record, ok) ==
    /\ writeRaises(record) = "none"
    /\ Len(submitted) < MaxWrites
    /\ \E c \in { _send(Channel, Buffer(record), ok) } :
           /\ Store(c)
           /\ submitted' = Append(submitted, Buffer(record))
           /\ last' = Outcome("write", record.type, "none", <<>>, c.trace)
    /\ preConnect' = IF _connected THEN preConnect ELSE preConnect + 1
    /\ UNCHANGED << _options, connectListener >>

Write ==
    \/ \E record \in Records : WriteThrows(record)
    \/ \E record \in Records, ok \in BOOLEAN : WriteSends(record, ok)

\* The socket emits 'connect': the once-listener runs at most once.
OnConnect ==
    \E resp \in [1..Len(_queue) -> BOOLEAN] :
        IF connectListener
        THEN \E c \in { _onConnectionSuccess(Channel, resp) } :
                 /\ Store(c)
                 /\ connectListener' = FALSE
                 /\ last' = Outcome("connect", "none", "none", <<>>, c.trace)
                 /\ UNCHANGED << _options, submitted, preConnect >>
        ELSE /\ last' = Outcome("connect", "none", "none", <<>>, <<>>)
             /\ UNCHANGED << _options, _queue, _connected, _congested,
                             errorListener, connectListener, submitted,
                             attempted, accepted, preConnect >>

\* The socket emits 'writable'.
OnWritable ==
    \E resp \in [1..Len(_queue) -> BOOLEAN] :
        \E c \in { _onWritable(Channel, resp) } :
            /\ Store(c)
            /\ last' = Outcome("writable", "none", "none", <<>>, c.trace)
            /\ UNCHANGED << _options, connectListener, submitted,
                            preConnect >>

\* The socket emits 'error': _onConnectionFailure throws while it is
\* registered; with no listener left the emitter throws the error itself.
OnError ==
    \E err \in Errnos :
        /\ last' = IF errorListener
                   THEN Outcome("error", "none", "Error",
                                errMsg(_options.path, err), <<>>)
                   ELSE Outcome("error", "none", "Unhandled", <<>>, <<>>)
        /\ UNCHANGED << _options, _queue, _connected, _congested,
                        errorListener, connectListener, submitted,
                        attempted, accepted, preConnect >>

Next == Write \/ OnConnect \/ OnWritable \/ OnError

Spec == Init /\ [][Next]_vars

\* new SyslogStream(): the stream constructed with no options.
LiveInit == Init /\ _options = defaultOptions

\* The socket of a path that exists emits 'connect', and after 'congestion'
\* it emits 'writable' once it has room again.
LiveSpec ==
    /\ LiveInit /\ [][Next]_vars
    /\ WF_vars(connectListener /\ OnConnect)
    /\ WF_vars(_congested /\ OnWritable)

----------------------------------------------------------------------------
(***************************************************************************)
(* The formatting alone: a stream constructed with a facility code, by     *)
(* number or by a name of the exported table, or with none, and one write  *)
(* of an object of any level.                                              *)
(***************************************************************************)
FormatLevels == 0..MaxLevel

FormatOptionSets ==
    { NoOptions }
        \cup { [facility |-> f] : f \in 0..MaxFacility }
        \cup { [facility |-> facility[n]] : n \in DOMAIN facility }

\* new SyslogStream(options)
FormatInit ==
    /\ \E options \in FormatOptionSets : _options = merge(defaultOptions, options)
    /\ _queue = <<>>
    /\ _connected = FALSE
    /\ _congested = FALSE
    /\ errorListener = TRUE
    /\ connectListener = TRUE
    /\ submitted = <<>>
    /\ attempted = <<>>
    /\ accepted = <<>>
    /\ preConnect = 0
    /\ last = Outcome("new", "none", "none", <<>>, <<>>)

\* SyslogStream.prototype.write, the first write of a stream.
FormatWrite ==
    \E lvl \in FormatLevels, ok \in BOOLEAN :
        /\ submitted = <<>>
        /\ WriteSends([type |-> "object", level |-> lvl], ok)

FormatSpec == FormatInit /\ [][FormatWrite]_vars

----------------------------------------------------------------------------
\* What the properties below speak of.

\* The buffers a call passed to socket.send, in order.
Sends(trace) == SelectSeq(trace, LAMBDA e : e.ev \in {"sent", "congestion"})
SentBufs(trace) == [i \in 1..Len(Sends(trace)) |-> Sends(trace)[i].buf]

IsPrefix(s, t) == Len(s) <= Len(t) /\ \A i \in 1..Len(s) : s[i] = t[i]

\* s holds its buffers in the order write() produced them, each once.
InSubmissionOrder(s) ==
    \A i, j \in 1..Len(s) : i < j => s[i].seq < s[j].seq

----------------------------------------------------------------------------
\* C1: no buffer is dropped: every buffer a successful write produced is
\* in the pending queue, or socket.send was called with it and did not
\* answer with 'congestion'.
C1_NoBufferDropped ==
    \A i \in 1..Len(submitted) :
        submitted[i] \in Range(_queue) \/ submitted[i] \in Range(accepted)

\* A flush met congestion: one buffer was taken, the next was handed back
\* and sits in the queue with the one behind it.
C1_Witness ==
    /\ last.op = "writable"
    /\ \E i \in 1..Len(last.trace) : last.trace[i].ev = "congestion"
    /\ Len(accepted) >= 1
    /\ Len(_queue) >= 2

\* C2: the socket takes the buffers in submission order: the buffers taken
\* so far are the first submitted ones, in that order, and the queue holds
\* the others in submission order, a handed-back buffer ahead of every
\* later one.
C2_SubmissionOrder ==
    /\ IsPrefix(accepted, submitted)
    /\ InSubmissionOrder(_queue)
    /\ \A i \in 1..Len(accepted), j \in 1..Len(_queue) :
            accepted[i].seq < _queue[j].seq

\* A buffer was handed back by 'congestion', a later write queued behind
\* it, and both were taken after 'writable'.
C2_Witness ==
    /\ Len(accepted) >= 2
    /\ last.op = "writable"
    /\ Len(Sends(last.trace)) >= 2
    /\ preConnect = 0

\* The i-th write has happened; its buffer has been passed to socket.send.
Submitted(i) == Len(submitted) >= i
Attempted(i) == Submitted(i) /\ submitted[i] \in Range(attempted)

\* The i-th buffer is the one a congested channel would send next.
CongestedAt(i) ==
    /\ _congested
    /\ _queue # <<>>
    /\ Head(_queue).seq = i

\* C3 as stated: with 'connect' emitted and every 'congestion' followed by
\* 'writable', every submitted buffer is eventually passed to socket.send.
C3_EventuallySent_AsStated ==
    \A i \in 1..MaxWrites : Submitted(i) ~> Attempted(i)

\* C3: when moreover the socket does not answer the sends of one and the
\* same buffer with 'congestion' for ever, every submitted buffer is
\* eventually passed to socket.send.
C3_EventuallySent ==
    (\A i \in 1..MaxWrites : []<>~CongestedAt(i))
        => (\A i \in 1..MaxWrites : Submitted(i) ~> Attempted(i))

\* A buffer queued while connecting, behind one that met congestion, has
\* reached socket.send after a later 'writable'.
C3_Witness ==
    /\ preConnect >= 2
    /\ last.op = "writable"
    /\ Attempted(2)
    /\ Len(accepted) >= 1
    /\ \E i \in 1..Len(last.trace) :
            last.trace[i].ev \in {"sent", "congestion"} /\ last.trace[i].buf.seq = 2

----------------------------------------------------------------------------
\* The steps the properties of single calls speak of.

\* A write that produced a buffer, and the buffer.
SubmitStep == Len(submitted') = Len(submitted) + 1
NewBuf == submitted'[Len(submitted')]

\* The once-listener of 'connect' ran.
ConnectStep == connectListener /\ ~connectListener'

\* C4: a write while not connected, or while congested, only appends: the
\* buffer goes to the tail of the queue and nothing else happens: no send,
\* no change of _connected or _congested, no error.
C4_SubmitOnlyAppends ==
    [][ (SubmitStep /\ (~_connected \/ _congested)) =>
            /\ _queue' = Append(_queue, NewBuf)
            /\ last'.trace = << Ev("push", NewBuf) >>
            /\ last'.error = "none"
            /\ UNCHANGED << _connected, _congested, attempted, accepted >>
      ]_vars

\* A write on a congested channel joined a queue that held a buffer.
C4_Witness ==
    /\ last.op = "write"
    /\ last.error = "none"
    /\ _connected /\ _congested
    /\ Len(_queue) >= 2
    /\ last.trace = << Ev("push", _queue[Len(_queue)]) >>

\* C5: a write while connected and clear passes the buffer to socket.send
\* once, in the same call and before any push: the call's first and only
\* send is of this buffer, and only a 'congestion' answer to that send puts
\* the buffer on the queue.
C5_SubmitSendsDirectly ==
    [][ (SubmitStep /\ _connected /\ ~_congested) =>
            /\ last'.error = "none"
            /\ \/ /\ last'.trace = << Ev("sent", NewBuf) >>
                  /\ accepted' = Append(accepted, NewBuf)
                  /\ _queue' = _queue
               \/ /\ last'.trace = << Ev("congestion", NewBuf), Ev("push", NewBuf) >>
                  /\ accepted' = accepted
                  /\ _queue' = Append(_queue, NewBuf)
      ]_vars

\* A write on a connected, clear channel went straight to the socket.
C5_Witness ==
    /\ last.op = "write"
    /\ Len(submitted) >= 2
    /\ last.trace = << Ev("sent", submitted[Len(submitted)]) >>
    /\ _connected /\ ~_congested
    /\ _queue = <<>>

\* No buffer submitted while connecting has its first socket.send after
\* the first socket.send of a buffer submitted later than it.
ConnectingBuffersFirst(att) ==
    \A p, q \in 1..Len(att) :
        (p < q /\ att[q].seq <= preConnect) => att[p].seq < att[q].seq

CongestionQueues ==
    /\ \A i \in 1..Len(last'.trace) :
          last'.trace[i].ev = "congestion" =>
              /\ _connected' /\ _congested'
              /\ _queue' # <<>>
              /\ Head(_queue') = last'.trace[i].buf
    /\ (SubmitStep /\ _congested) =>
          /\ _queue # <<>>
          /\ _queue' = Append(_queue, NewBuf)
          /\ Sends(last'.trace) = <<>>

\* 'writable' ran on a connected, congested channel.
WritableStep == last'.op = "writable" /\ _connected /\ _congested

\* C7 as stated: the next 'writable' clears the flag (only a new
\* 'congestion' answer sets it again) and passes every buffer queued at
\* that moment to socket.send, in queue order.
C7_RoundTrip_AsStated ==
    [][ /\ CongestionQueues
        /\ WritableStep =>
              /\ _congested' => \E i \in 1..Len(last'.trace) :
                                    last'.trace[i].ev = "congestion"
              /\ SentBufs(last'.trace) = _queue
      ]_vars

\* C7: the next 'writable' clears the flag and passes the queued buffers
\* to socket.send in queue order, up to and including the first one the
\* socket answers with 'congestion'; that answer makes the channel
\* congested again, with that buffer and the ones behind it queued in the
\* same order.  With no such answer all of them are sent and the channel
\* ends clear with an empty queue.
C7_RoundTrip ==
    [][ /\ CongestionQueues
        /\ WritableStep =>
              LET sends == Sends(last'.trace)
                  n == Len(sends)
              IN  /\ n >= 1
                  /\ IsPrefix(SentBufs(last'.trace), _queue)
                  /\ \A i \in 1..(n - 1) : sends[i].ev = "sent"
                  /\ accepted' \o _queue' = accepted \o _queue
                  /\ _congested' = (sends[n].ev = "congestion")
                  /\ sends[n].ev = "sent" => (n = Len(_queue) /\ _queue' = <<>>)
                  /\ sends[n].ev = "congestion" =>
                        _queue' = SubSeq(_queue, n, Len(_queue))
      ]_vars

\* After 'writable' the socket took the buffer it had handed back and
\* answered the next one with 'congestion'; a third waits behind it.
C7_Witness ==
    /\ last.op = "writable"
    /\ Len(Sends(last.trace)) = 2
    /\ Sends(last.trace)[1].ev = "sent"
    /\ Sends(last.trace)[2].ev = "congestion"
    /\ preConnect = 0
    /\ _congested
    /\ Len(_queue) = 2

\* C8: write of an object never raises, whatever the channel's state.
C8_WriteObjectNeverRaises ==
    (last.op = "write" /\ last.arg = "object") => last.error = "none"

\* An object was written to a connected, congested channel with a queue.
C8_Witness ==
    /\ last.op = "write"
    /\ last.arg = "object"
    /\ last.error = "none"
    /\ _connected /\ _congested
    /\ Len(_queue) = MaxWrites

\* C9: write of a record that is not an object raises and does nothing
\* else: no send, no push, no change of _connected or _congested.
C9_NonObjectRaisesOnly ==
    [][ (last'.op = "write" /\ last'.arg # "object") =>
            /\ last'.error # "none"
            /\ last'.trace = <<>>
            /\ UNCHANGED << _queue, _connected, _congested, submitted,
                            attempted, accepted >>
      ]_vars

\* A string was written to a congested channel with a queue.
C9_Witness ==
    /\ last.op = "write"
    /\ last.arg = "string"
    /\ last.error = "Error"
    /\ _congested
    /\ Len(_queue) >= 1

\* C10: an 'error' event while connecting always raises an Error whose
\* message names the configured path, whatever the errno, and leaves the
\* channel unconnected.
C10_ConnectErrorSurfaced ==
    [][ (last'.op = "error" /\ ~_connected) =>
            /\ last'.error = "Error"
            /\ _options.path \in Range(last'.msg)
            /\ ~_connected'
            /\ UNCHANGED << _queue, _congested, errorListener >>
      ]_vars

\* The socket of a missing path reported an errno the handler has no
\* message of its own for, with a buffer already queued.
C10_Witness ==
    /\ last.op = "error"
    /\ last.error = "Error"
    /\ ~_connected
    /\ _options.path = "/tmp/missing.sock"
    /\ last.msg = << "Failed to connect to ", "/tmp/missing.sock",
                     ". The errno code was ", "1", "1", "1", "." >>
    /\ Len(_queue) >= 1

----------------------------------------------------------------------------
\* The severity in a buffer's priority, the facility taken off.
Severity(buf) == buf.priority - (_options.facility * 8)

\* C11 as stated: every level from 60 up maps to 0 (emerg), 50 to 3, 40 to
\* 4, 30 to 6 and every other level to 7.
C11_SeverityTable_AsStated ==
    \A i \in 1..Len(submitted) :
        LET lvl == submitted[i].level
        IN  Severity(submitted[i]) =
                IF lvl >= 60 THEN 0
                ELSE IF lvl = 50 THEN 3
                ELSE IF lvl = 40 THEN 4
                ELSE IF lvl = 30 THEN 6
                ELSE 7

\* C11: level 60 maps to 0 (emerg), 50 to 3, 40 to 4, 30 to 6 and every
\* other level, the levels above 60 among them, to 7; the result is one
\* of 0, 3, 4, 6, 7.
C11_SeverityTable ==
    \A i \in 1..Len(submitted) :
        LET lvl == submitted[i].level
        IN  /\ Severity(submitted[i]) =
                    IF lvl = 60 THEN 0
                    ELSE IF lvl = 50 THEN 3
                    ELSE IF lvl = 40 THEN 4
                    ELSE IF lvl = 30 THEN 6
                    ELSE 7
            /\ Severity(submitted[i]) \in {0, 3, 4, 6, 7}

\* A record of a level above fatal was written and got severity 7.
C11_Witness ==
    /\ submitted # <<>>
    /\ submitted[1].level = 61
    /\ Severity(submitted[1]) = 7

\* C12: the priority of every buffer is facility * 8 + severity with the
\* facility the stream was constructed with; for a facility in 0..23 it
\* lies in 0..191, its quotient by 8 is the facility and its remainder
\* the severity.
C12_Priority ==
    \A i \in 1..Len(submitted) :
        LET buf == submitted[i]
            f == _options.facility
        IN  /\ buf.priority = (f * 8) + level(buf.level)
            /\ f \in 0..23 =>
                  /\ buf.priority \in 0..191
                  /\ buf.priority \div 8 = f
                  /\ buf.priority % 8 = level(buf.level)

\* The user facility and an info record give priority 14.
C12_Witness ==
    /\ submitted # <<>>
    /\ _options.facility = 1
    /\ submitted[1].level = 30
    /\ submitted[1].priority = 14

\* C13: the exported facility table has 20 names, the names index.d.ts
\* declares, with a code of its own each, and its codes are 0..23 without
\* 9, 12, 13 and 14, so that no stream constructed with a code of the
\* table writes one of these four into a priority.
C13_FacilityTable ==
    /\ Cardinality(DOMAIN facility) = 20
    /\ DOMAIN facility = facilityDeclared
    /\ \A m, n \in DOMAIN facility : m # n => facility[m] # facility[n]
    /\ { facility[n] : n \in DOMAIN facility } = (0..23) \ {9, 12, 13, 14}
    /\ facility.kern = 0 /\ facility.uucp = 8
    /\ facility.authpriv = 10 /\ facility.ftp = 11 /\ facility.cron = 15
    /\ facility.local0 = 16 /\ facility.local7 = 23
    /\ \A i \in 1..Len(submitted) :
          _options.facility \in { facility[n] : n \in DOMAIN facility } =>
              submitted[i].priority \div 8 \in (0..23) \ {9, 12, 13, 14}

\* A stream constructed with facility.cron wrote a buffer.
C13_Witness ==
    /\ _options.facility = facility.cron
    /\ submitted # <<>>
    /\ submitted[1].priority \div 8 = 15

----------------------------------------------------------------------------
\* A call that ran _handleQueue: the 'connect' listener, or 'writable'.
FlushStep == ConnectStep \/ last'.op = "writable"

\* The buffers a call passed to _send, in order: every event of the trace
\* but the push _onCongestion makes right after a 'congestion' answer.
RECURSIVE SendPath(_)
SendPath(trace) ==
    IF trace = <<>> THEN <<>>
    ELSE IF /\ Head(trace).ev = "congestion"
            /\ Len(trace) >= 2
            /\ trace[2] = Ev("push", Head(trace).buf)
         THEN << Head(trace).buf >> \o SendPath(Tail(Tail(trace)))
         ELSE << Head(trace).buf >> \o SendPath(Tail(trace))

\* The buffers a call pushed onto the queue, in order.
Pushed(trace) ==
    LET pushes == SelectSeq(trace, LAMBDA e : e.ev = "push")
    IN  [i \in 1..Len(pushes) |-> pushes[i].buf]

\* C14: a flush works on a snapshot: it passes each buffer of the queue
\* it found to _send once, in queue order, and so makes as many steps as
\* that queue has buffers; what is queued during the flush makes up the
\* new queue and is not walked by this flush.
C14_FlushSnapshot ==
    [][ FlushStep =>
            /\ SendPath(last'.trace) = _queue
            /\ Len(SendPath(last'.trace)) = Len(_queue)
            /\ _queue' = Pushed(last'.trace)
      ]_vars

\* A flush of three buffers whose first send was answered by
\* 'congestion': all three are queued again and the flush is over.
C14_Witness ==
    /\ last.op = "writable"
    /\ _connected
    /\ Len(last.trace) = 4
    /\ last.trace[1].ev = "congestion"
    /\ Len(_queue) = 3

\* C15: _connected starts false, becomes true only when the 'connect'
\* listener runs, which it does at most once, and never becomes false
\* again.
C15_ConnectedMonotonic ==
    [][ /\ _connected => _connected'
        /\ (~_connected /\ _connected') => ConnectStep
        /\ ConnectStep => ~_connected /\ _connected'
        /\ ~connectListener => ~connectListener'
        /\ ~connectListener' => _connected'
      ]_vars

\* A connected channel has been through congestion, 'writable' and a
\* second 'connect' event.
C15_Witness ==
    /\ _connected
    /\ last.op = "connect"
    /\ Len(accepted) >= 1
    /\ _congested

\* C16: once the 'connect' listener has run, _onConnectionFailure is off
\* the 'error' event: an 'error' event on a connected channel raises no
\* Error of the channel's making.
C16_ErrorPathOnlyConnecting ==
    [][ /\ _connected' => ~errorListener'
        /\ (last'.op = "error" /\ _connected) =>
              /\ last'.error = "Unhandled"
              /\ last'.msg = <<>>
      ]_vars

\* An 'error' event reached a connected channel with a queue.
C16_Witness ==
    /\ _connected
    /\ last.op = "error"
    /\ last.error = "Unhandled"
    /\ Len(_queue) >= 1

\* C17: between calls a connected, clear channel has an empty queue.
C17_QueueEmptyAtRest ==
    (_connected /\ ~_congested) => _queue = <<>>

\* 'connect' flushed two buffers to the socket and left the channel
\* clear.
C17_Witness ==
    /\ last.op = "connect"
    /\ _connected /\ ~_congested
    /\ Len(Sends(last.trace)) >= 2
    /\ _queue = <<>>

\* C18: no buffer is duplicated: the queue and the accepted buffers hold
\* submitted buffers, each at most once in all.
C18_NoDuplicate ==
    /\ \A i, j \in 1..Len(_queue) : i # j => _queue[i] # _queue[j]
    /\ \A i, j \in 1..Len(accepted) : i # j => accepted[i] # accepted[j]
    /\ Range(_queue) \cap Range(accepted) = {}
    /\ Range(_queue) \cup Range(accepted) \subseteq Range(submitted)
    /\ Len(_queue) + Len(accepted) <= Len(submitted)

\* The 'connect' flush got one buffer taken and two handed back or
\* queued again.
C18_Witness ==
    /\ last.op = "connect"
    /\ \E i \in 1..Len(last.trace) : last.trace[i].ev = "congestion"
    /\ Len(accepted) = 1
    /\ Len(_queue) >= 2

\* C19: 'writable' on a channel that is still connecting sends nothing,
\* leaves the queue as it was and the channel unconnected.
C19_WritableWhileConnecting ==
    [][ (last'.op = "writable" /\ ~_connected) =>
            /\ Sends(last'.trace) = <<>>
            /\ _queue' = _queue
            /\ ~_connected'
            /\ UNCHANGED << attempted, accepted >>
      ]_vars

\* 'writable' walked a queue of at least two buffers while connecting.
C19_Witness ==
    /\ last.op = "writable"
    /\ ~_connected
    /\ Len(_queue) >= 2
    /\ Len(last.trace) = Len(_queue)

====
